---------------------------- MODULE Spec2Model ----------------------------
(***************************************************************************)
(* State-machine model of src/ns3_sim.cc: main() of the ns-3 driver that   *)
(* loads a topology, allocates one /24 per link, reads optional static     *)
(* routes and flow pairs, pads/truncates the flow-pair list, installs one  *)
(* UDP sink/source pair per flow, runs the engine and writes one CSV row   *)
(* per engine-reported flow.                                               *)
(*                                                                         *)
(* Representation choices                                                  *)
(*  - an Ipv4Address is its 32-bit host-order value; an address STRING     *)
(*    (dotted decimal) is the 4-tuple of its decimal fields, so printing   *)
(*    and parsing are real conversions;                                    *)
(*  - node indices are 0-based as in the code; nodeIpv4Strings[n] of the   *)
(*    code is nodeIpv4Strings[n + 1] here;                                 *)
(*  - a JSON field that is missing or not a number is the value Bad;       *)
(*  - undefined behaviour (rand() % 0, operator[] past the end) is a       *)
(*    choice between the process faulting and the access yielding some     *)
(*    value.                                                               *)
(***************************************************************************)
EXTENDS Integers, Sequences, FiniteSets, TLC

(* ------------------------------ bounds -------------------------------- *)
MaxNodes == 3
MaxLinks == 2
MaxRoutes == 2
MaxFlows == 2
MaxStats == 1
MaxLinkCount == 65540
MaxFlowIndex == 65540
MaxTx == 12

(* -------------------------- program constants ------------------------- *)
FastCap == 5
SubnetStart == 1
basePort == 9000
Bad == -1
NoNode == -1
U8 == 256
U16 == 65536

VARIABLES
    pc,               \* position of main()
    exitCode,         \* process exit status; -1 while running or after a fault
    nFlows,           \* uint32_t nFlows
    fastMode,         \* bool fastMode
    nNodes,           \* uint32_t nNodes
    links,            \* std::vector<LinkSpec> links, as <<src, dst>>
    li,               \* links already installed by the "Links and IPs" loop
    subnetIndex,      \* uint32_t subnetIndex
    subnets,          \* base strings handed to ipv4.SetBase, in order
    nodeIpv4Strings,  \* std::vector<std::vector<std::string>>
    rj,               \* rj["routes"] as read so far: <<src, dst>> per entry
    ri,               \* entries visited by the static-route loop
    entry,            \* <<src, dst, next>> of the static-route iteration just run
    route,            \* its AddHostRouteTo call <<node, dstAddr, nextHop>>, or <<>>
    nStaticRoutes,    \* AddHostRouteTo calls made so far
    parseFailed,      \* the catch (...) handler of the routing block ran
    extracted,        \* flow pairs emplaced by the extraction loop (history)
    flowPairs,        \* std::vector<std::pair<uint32_t, uint32_t>>
    f,                \* index of the session-installation loop
    sessions,         \* sink/on-off pairs installed, in order
    nRows,            \* CSV data rows written
    rec,              \* <<row>> while a CSV row is being written, else <<>>
    fnIn,             \* input of the function under check (function specs)
    fnOut             \* its output (<<>> before it is applied)

vars == <<pc, exitCode, nFlows, fastMode, nNodes, links, li, subnetIndex,
          subnets, nodeIpv4Strings, rj, ri, entry, route, nStaticRoutes,
          parseFailed, extracted, flowPairs, f, sessions, nRows, rec,
          fnIn, fnOut>>

\* variable groups, for the frame conditions
cmdVars == <<nFlows, fastMode>>
topoVars == <<nNodes, links, li, subnetIndex, subnets, nodeIpv4Strings>>
routeVars == <<rj, ri, entry, route, nStaticRoutes, parseFailed, extracted>>
flowVars == <<f, sessions>>
csvVars == <<nRows, rec>>
fnVars == <<fnIn, fnOut>>

(* ------------------------------ helpers ------------------------------- *)
Min(a, b) == IF a < b THEN a ELSE b

\* a truncation that drops the front of the vector instead of its back
ResizeKeepLast(s, n) == SubSeq(s, Len(s) - n + 1, Len(s))

\* std::vector::resize(n) on a vector at least n long
Resize(s, n) == SubSeq(s, 1, n)

\* Ipv4Address::Print / ipToStr: the dotted-decimal string of a 32-bit value
ipToStr(addr) ==
    << (addr \div (U8 * U8 * U8)) % U8, (addr \div (U8 * U8)) % U8,
       (addr \div U8) % U8, addr % U8 >>

\* Ipv4Address(const char*): the 32-bit value of a dotted-decimal string
Ipv4Address(str) ==
    ((str[1] * U8 + str[2]) * U8 + str[3]) * U8 + str[4]

\* a third octet taken modulo 255 instead of 256
SubnetBaseNarrow(c) == << 10, c \div U8, c % (U8 - 1), 0 >>

\* line 117: base << "10." << (subnetIndex / 256) << "." << (subnetIndex % 256) << ".0"
SubnetBase(c) == << 10, c \div U8, c % U8, 0 >>

\* ipv4.Assign(d): the two host addresses of the /24 set by SetBase
Assign(base) == << Ipv4Address(base) + 1, Ipv4Address(base) + 2 >>

\* line 215: uint16_t port = basePort + f
Port(flow) == (basePort + flow) % U16

\* lines 292-293: both counters are uint32_t, so the quotient is an unsigned
\* integer division; the product with 100.0 is then exact.  The engine never
\* reports rxPackets > txPackets, so the subtraction does not wrap.
LossPct(tx, rx) ==
    IF tx > 0 THEN ((tx - rx) \div tx) * 100 ELSE 0

\* lines 275-286: the scan has no break, so the last matching node wins
RECURSIVE LookupFrom(_, _, _, _)
LookupFrom(table, ip, n, idx) ==
    IF n >= Len(table) THEN idx
    ELSE LookupFrom(table, ip, n + 1,
                    IF \E k \in 1..Len(table[n + 1]) : table[n + 1][k] = ip
                    THEN n ELSE idx)

\* a scan that starts at node 1 instead of node 0
LookupSkipFirst(table, ip) == LookupFrom(table, ip, 1, NoNode)

Lookup(table, ip) == LookupFrom(table, ip, 0, NoNode)

\* line 150: the test a route entry passes to become a flow pair
IsFlowPair(src, dst, n) == src < n /\ dst < n /\ src /= dst

\* lines 167-170: the tests a route entry passes to get a static route
Resolvable(table, dst, next) ==
    /\ next < Len(table) /\ dst < Len(table)
    /\ table[next + 1] /= <<>> /\ table[dst + 1] /= <<>>

\* lines 194-195: while (b == a) b = (b + 1) % nNodes, for nNodes >= 2
RECURSIVE MakeDistinct(_, _, _)
MakeDistinct(a, b, n) == IF b = a THEN MakeDistinct(a, (b + 1) % n, n) ELSE b

(* ------------------------------ inputs -------------------------------- *)
SeqsUpTo(S, n) == UNION { [1..k -> S] : k \in 0..n }

\* LinkSpec lists of a topology with n nodes: src /= dst, both < n
LinkSpecs(n) == { l \in (0..(n - 1)) \X (0..(n - 1)) : l[1] /= l[2] }
Topologies(n) == SeqsUpTo(LinkSpecs(n), MaxLinks)

\* a src, dst or next_hop member of a route entry: an index, in range or
\* not, or Bad.  A member is drawn when the code first reads it.
RouteField == (0..(MaxNodes - 1)) \union {Bad}

(* ------------------------------- Init --------------------------------- *)
\* after cmd.Parse (line 49)
Init ==
    /\ pc = "load"
    /\ exitCode = -1
    /\ nFlows \in 0..MaxFlows
    /\ fastMode \in BOOLEAN
    /\ nNodes = 0
    /\ links = <<>>
    /\ li = 0
    /\ subnetIndex = SubnetStart
    /\ subnets = <<>>
    /\ nodeIpv4Strings = <<>>
    /\ rj = <<>>
    /\ ri = 0
    /\ entry = <<>>
    /\ route = <<>>
    /\ nStaticRoutes = 0
    /\ parseFailed = FALSE
    /\ extracted = <<>>
    /\ flowPairs = <<>>
    /\ f = 0
    /\ sessions = <<>>
    /\ nRows = 0
    /\ rec = <<>>
    /\ fnIn = <<>>
    /\ fnOut = <<>>

(* ------------------------------ actions ------------------------------- *)
\* lines 52-59: the topology file cannot be opened
TopologyUnreadable ==
    /\ pc = "load"
    /\ pc' = "done"
    /\ exitCode' = 1
    /\ UNCHANGED <<cmdVars, topoVars, routeVars, flowPairs, flowVars, csvVars, fnVars>>

\* lines 60-73: the file opens but is not the JSON the loader reads (the
\* parse or a get<uint32_t>() throws; nothing catches it)
TopologyMalformed ==
    /\ pc = "load"
    /\ pc' = "fault"
    /\ UNCHANGED <<exitCode, cmdVars, topoVars, routeVars, flowPairs, flowVars,
                   csvVars, fnVars>>

\* lines 52-108: topology loaded, fast-mode cap, nodes created, empty table
LoadTopology ==
    /\ pc = "load"
    /\ \E n \in 0..MaxNodes :
         /\ nNodes' = n
         /\ links' \in Topologies(n)
         /\ nodeIpv4Strings' = [i \in 1..n |-> <<>>]
    /\ nFlows' = IF fastMode THEN Min(nFlows, FastCap) ELSE nFlows
    /\ subnetIndex' = SubnetStart
    /\ li' = 0
    /\ pc' = "links"
    /\ UNCHANGED <<exitCode, fastMode, subnets, routeVars, flowPairs, flowVars,
                   csvVars, fnVars>>

\* an iteration that records the address of the link's first endpoint only
AllocLinkOneEnd ==
    /\ pc = "links"
    /\ li < Len(links)
    /\ LET lk == links[li + 1]
           base == SubnetBase(subnetIndex)
           ifc == Assign(base)
       IN /\ subnets' = Append(subnets, base)
          /\ nodeIpv4Strings' =
                [nodeIpv4Strings EXCEPT ![lk[1] + 1] = Append(@, ipToStr(ifc[1]))]
    /\ subnetIndex' = subnetIndex + 1
    /\ li' = li + 1
    /\ UNCHANGED <<pc, exitCode, cmdVars, nNodes, links, routeVars, flowPairs,
                   flowVars, csvVars, fnVars>>

\* lines 109-124: one iteration of the "Links and IPs" loop
AllocLink ==
    /\ pc = "links"
    /\ li < Len(links)
    /\ LET lk == links[li + 1]
           base == SubnetBase(subnetIndex)
           ifc == Assign(base)
           t1 == [nodeIpv4Strings EXCEPT ![lk[1] + 1] = Append(@, ipToStr(ifc[1]))]
       IN /\ subnets' = Append(subnets, base)
          /\ nodeIpv4Strings' = [t1 EXCEPT ![lk[2] + 1] = Append(@, ipToStr(ifc[2]))]
    /\ subnetIndex' = subnetIndex + 1
    /\ li' = li + 1
    /\ UNCHANGED <<pc, exitCode, cmdVars, nNodes, links, routeVars, flowPairs,
                   flowVars, csvVars, fnVars>>

routeFrame == <<exitCode, cmdVars, topoVars, flowVars, csvVars, fnVars>>

\* lines 126-136: the link loop is over; routing.json cannot be opened
RoutesMissing ==
    /\ pc = "links" /\ li = Len(links)
    /\ pc' = "pad"
    /\ UNCHANGED <<routeVars, flowPairs, routeFrame>>

\* lines 141, 182-185: rfs >> rj throws and the handler runs
RoutesUnparsable ==
    /\ pc = "links" /\ li = Len(links)
    /\ parseFailed' = TRUE
    /\ pc' = "pad"
    /\ UNCHANGED <<rj, ri, entry, route, nStaticRoutes, extracted, flowPairs,
                   routeFrame>>

\* lines 141-159: a JSON document without a "routes" member
RoutesAbsent ==
    /\ pc = "links" /\ li = Len(links)
    /\ pc' = "norow"
    /\ UNCHANGED <<routeVars, flowPairs, routeFrame>>

\* lines 181-190: the routing block ends without a "routes" member
RoutesAbsentEnd ==
    /\ pc = "norow"
    /\ pc' = "pad"
    /\ UNCHANGED <<routeVars, flowPairs, routeFrame>>

\* lines 141-146: a JSON document with a "routes" member
RoutesParsed ==
    /\ pc = "links" /\ li = Len(links)
    /\ pc' = "extract"
    /\ UNCHANGED <<routeVars, flowPairs, routeFrame>>

\* lines 182-187: the handler of a throwing conversion; rj, the loop
\* variables and the handler's frame go out of scope
Caught ==
    /\ parseFailed' = TRUE
    /\ pc' = "pad"
    /\ rj' = <<>>
    /\ ri' = 0
    /\ entry' = <<>>
    /\ route' = <<>>

\* lines 146-154: one iteration of the flow-pair extraction loop, on the
\* next entry of rj["routes"]
ExtractPair ==
    /\ pc = "extract"
    /\ Len(rj) < MaxRoutes
    /\ \E src \in RouteField, dst \in RouteField :
         IF src = Bad \/ dst = Bad
         THEN /\ Caught
              /\ UNCHANGED <<nStaticRoutes, extracted, flowPairs>>
         ELSE /\ IF IsFlowPair(src, dst, nNodes)
                 THEN /\ flowPairs' = Append(flowPairs, <<src, dst>>)
                      /\ extracted' = Append(extracted, <<src, dst>>)
                 ELSE UNCHANGED <<flowPairs, extracted>>
              /\ rj' = Append(rj, <<src, dst>>)
              /\ UNCHANGED <<pc, ri, entry, route, nStaticRoutes, parseFailed>>
    /\ UNCHANGED routeFrame

\* lines 155-162: rj["routes"] has no further entry; the static-route
\* loop starts
BeginInstall ==
    /\ pc = "extract"
    /\ pc' = "install"
    /\ ri' = 0
    /\ UNCHANGED <<rj, entry, route, nStaticRoutes, parseFailed, extracted,
                   flowPairs, routeFrame>>

\* lines 162-179: one iteration of the static-route loop
InstallRoute ==
    /\ pc = "install"
    /\ ri < Len(rj)
    /\ \E next \in RouteField :
         LET src == rj[ri + 1][1]
             dst == rj[ri + 1][2]
         IN IF next = Bad
            THEN /\ Caught
                 /\ UNCHANGED nStaticRoutes
            ELSE IF ~Resolvable(nodeIpv4Strings, dst, next)
            THEN \* continue
                 /\ entry' = <<src, dst, next>>
                 /\ route' = <<>>
                 /\ ri' = ri + 1
                 /\ UNCHANGED <<pc, rj, nStaticRoutes, parseFailed>>
            ELSE LET dstAddr == Ipv4Address(Head(nodeIpv4Strings[dst + 1]))
                     nextHop == Ipv4Address(Head(nodeIpv4Strings[next + 1]))
                 IN IF src < nNodes
                    THEN /\ entry' = <<src, dst, next>>
                         /\ route' = <<src, dstAddr, nextHop>>
                         /\ nStaticRoutes' = nStaticRoutes + 1
                         /\ ri' = ri + 1
                         /\ UNCHANGED <<pc, rj, parseFailed>>
                    ELSE \* nodes.Get(src) reads past the container: the
                         \* process faults, or a stale pointer to some node
                         \* is used
                         \/ /\ pc' = "fault"
                            /\ entry' = <<src, dst, next>>
                            /\ UNCHANGED <<rj, ri, route, nStaticRoutes, parseFailed>>
                         \/ /\ \E n \in 0..(nNodes - 1) :
                                 route' = <<n, dstAddr, nextHop>>
                            /\ entry' = <<src, dst, next>>
                            /\ nStaticRoutes' = nStaticRoutes + 1
                            /\ ri' = ri + 1
                            /\ UNCHANGED <<pc, rj, parseFailed>>
    /\ UNCHANGED <<extracted, flowPairs, routeFrame>>

\* lines 179-187: the static-route loop is over; rj and the loop variables
\* go out of scope
EndRoutes ==
    /\ pc = "install"
    /\ ri = Len(rj)
    /\ pc' = "pad"
    /\ rj' = <<>>
    /\ ri' = 0
    /\ entry' = <<>>
    /\ route' = <<>>
    /\ UNCHANGED <<nStaticRoutes, parseFailed, extracted, flowPairs, routeFrame>>

padFrame == <<exitCode, cmdVars, topoVars, routeVars, sessions, csvVars, fnVars>>

\* lines 190-197 with nNodes >= 2: one random pair, made distinct
PadFlow ==
    /\ pc = "pad"
    /\ Len(flowPairs) < nFlows
    /\ nNodes >= 2
    /\ \E a \in 0..(nNodes - 1), b \in 0..(nNodes - 1) :
         flowPairs' = Append(flowPairs, <<a, MakeDistinct(a, b, nNodes)>>)
    /\ UNCHANGED <<pc, f, padFrame>>

\* lines 190-195 with nNodes = 1: a = b = 0 and (b + 1) % 1 = 0, so the
\* inner while never ends
PadSpin ==
    /\ pc \in {"pad", "spin"}
    /\ Len(flowPairs) < nFlows
    /\ nNodes = 1
    /\ pc' = "spin"
    /\ UNCHANGED <<flowPairs, f, padFrame>>

\* lines 192-196 with nNodes = 0: rand() % 0 is undefined; the division
\* traps, or (no trap on the target) a and b are arbitrary distinct values
PadDivZero ==
    /\ pc = "pad"
    /\ Len(flowPairs) < nFlows
    /\ nNodes = 0
    /\ \/ /\ pc' = "fault"
          /\ UNCHANGED flowPairs
       \/ /\ \E a \in 0..MaxNodes, b \in 0..MaxNodes :
               /\ a /= b
               /\ flowPairs' = Append(flowPairs, <<a, b>>)
          /\ UNCHANGED pc
    /\ UNCHANGED <<f, padFrame>>

\* lines 199-206: padding is over; truncate to nFlows
Truncate ==
    /\ pc = "pad"
    /\ Len(flowPairs) >= nFlows
    /\ flowPairs' = IF Len(flowPairs) > nFlows THEN Resize(flowPairs, nFlows)
                    ELSE flowPairs
    /\ f' = 0
    /\ pc' = "flows"
    /\ UNCHANGED padFrame

flowFrame == <<exitCode, cmdVars, topoVars, routeVars, flowPairs, csvVars, fnVars>>

\* lines 206-231: one iteration of the session loop
InstallSession ==
    /\ pc = "flows"
    /\ f < Len(flowPairs)
    /\ LET a == flowPairs[f + 1][1]
           b == flowPairs[f + 1][2]
       IN IF b >= Len(nodeIpv4Strings) \/ a >= nNodes
          THEN \* operator[] / nodes.Get past the end: fault, or the read
               \* yields an empty-looking element and the flow is skipped
               \/ /\ pc' = "fault"
                  /\ UNCHANGED <<f, sessions>>
               \/ /\ f' = f + 1
                  /\ UNCHANGED <<pc, sessions>>
          ELSE IF nodeIpv4Strings[b + 1] = <<>>
          THEN /\ f' = f + 1
               /\ UNCHANGED <<pc, sessions>>
          ELSE /\ sessions' = Append(sessions,
                     [flow |-> f, src |-> a, dst |-> b, port |-> Port(f),
                      dstIp |-> Ipv4Address(Head(nodeIpv4Strings[b + 1]))])
               /\ f' = f + 1
               /\ UNCHANGED pc
    /\ UNCHANGED flowFrame

\* lines 233-263: animation, flow monitor, Simulator::Run, CSV header
RunSimulation ==
    /\ pc = "flows"
    /\ f = Len(flowPairs)
    /\ pc' = "metrics"
    /\ UNCHANGED <<f, sessions, flowFrame>>

\* every address the allocator recorded, as 32-bit values
Recorded ==
    UNION { { Ipv4Address(nodeIpv4Strings[n][k]) : k \in 1..Len(nodeIpv4Strings[n]) } :
            n \in 1..Len(nodeIpv4Strings) }

\* 127.0.0.1, which every node has and no address list records
Loopback == 127 * U8 * U8 * U8 + 1

metricsFrame == <<exitCode, cmdVars, topoVars, routeVars, flowPairs, flowVars, fnVars>>

\* lines 264-297: the row of one engine statistics entry.  The engine is
\* free in the five-tuple it reports; the row's counters and the metrics
\* derived from them (LossPct) do not depend on the program's state and are
\* left out of it.
EmitRecord ==
    /\ pc = "metrics"
    /\ nRows < MaxStats
    /\ \E srcA \in Recorded \union {Loopback}, dstA \in Recorded \union {Loopback} :
         rec' = << [srcIp |-> ipToStr(srcA), dstIp |-> ipToStr(dstA),
                    srcIdx |-> Lookup(nodeIpv4Strings, ipToStr(srcA)),
                    dstIdx |-> Lookup(nodeIpv4Strings, ipToStr(dstA))] >>
    /\ pc' = "row"
    /\ UNCHANGED <<nRows, metricsFrame>>

\* lines 264, 298: the row is written; the loop body's variables go out of
\* scope
NextRecord ==
    /\ pc = "row"
    /\ rec' = <<>>
    /\ nRows' = nRows + 1
    /\ pc' = "metrics"
    /\ UNCHANGED metricsFrame

\* lines 300-308
Finish ==
    /\ pc = "metrics"
    /\ pc' = "done"
    /\ exitCode' = 0
    /\ UNCHANGED <<cmdVars, topoVars, routeVars, flowPairs, flowVars, csvVars, fnVars>>

Next ==
    \/ TopologyUnreadable
    \/ TopologyMalformed
    \/ LoadTopology
    \/ AllocLink
    \/ RoutesMissing
    \/ RoutesUnparsable
    \/ RoutesAbsent
    \/ RoutesAbsentEnd
    \/ RoutesParsed
    \/ ExtractPair
    \/ BeginInstall
    \/ InstallRoute
    \/ EndRoutes
    \/ PadFlow
    \/ PadSpin
    \/ PadDivZero
    \/ Truncate
    \/ InstallSession
    \/ RunSimulation
    \/ EmitRecord
    \/ NextRecord
    \/ Finish

Spec == Init /\ [][Next]_vars

\* main() is sequential code: whenever it has a next step, it takes it
FairSpec == Init /\ [][Next]_vars /\ WF_vars(Next)

(* ---------------------- function specifications ----------------------- *)
\* the program variables, parked while one computation is checked alone
Parked ==
    /\ pc = "fn"
    /\ exitCode = -1
    /\ nFlows = 0
    /\ fastMode = FALSE
    /\ nNodes = 0
    /\ links = <<>>
    /\ li = 0
    /\ subnetIndex = SubnetStart
    /\ subnets = <<>>
    /\ nodeIpv4Strings = <<>>
    /\ rj = <<>>
    /\ ri = 0
    /\ entry = <<>>
    /\ route = <<>>
    /\ nStaticRoutes = 0
    /\ parseFailed = FALSE
    /\ extracted = <<>>
    /\ flowPairs = <<>>
    /\ f = 0
    /\ sessions = <<>>
    /\ nRows = 0
    /\ rec = <<>>

progVars == <<pc, exitCode, cmdVars, topoVars, routeVars, flowPairs, flowVars,
              csvVars>>

\* The subnet counter of the "Links and IPs" loop over a topology of up to
\* MaxLinkCount links, the endpoints left out: fnIn = <<links installed,
\* subnetIndex>>, fnOut = the base string of the link installed last.
InitSubnet ==
    /\ Parked
    /\ fnIn = <<0, SubnetStart>>
    /\ fnOut = <<>>

\* lines 109-124, the subnet part of one iteration
SubnetStep ==
    /\ pc = "fn"
    /\ fnIn[1] < MaxLinkCount
    /\ fnOut' = SubnetBase(fnIn[2])
    /\ fnIn' = <<fnIn[1] + 1, fnIn[2] + 1>>
    /\ UNCHANGED progVars

SpecSubnet == InitSubnet /\ [][SubnetStep]_vars

\* The port of flow index fnIn[1] (line 215), for any index a uint32_t flow
\* count allows up to MaxFlowIndex.
InitPort ==
    /\ Parked
    /\ fnIn \in { <<i>> : i \in 0..MaxFlowIndex }
    /\ fnOut = <<>>

PortStep ==
    /\ pc = "fn"
    /\ fnOut = <<>>
    /\ fnOut' = <<Port(fnIn[1])>>
    /\ UNCHANGED <<fnIn, progVars>>

SpecPort == InitPort /\ [][PortStep]_vars

\* The loss percentage (lines 292-293) of a statistics entry with
\* txPackets = fnIn[1] and rxPackets = fnIn[2] <= txPackets.
InitLoss ==
    /\ Parked
    /\ fnIn \in { <<tx, rx>> : tx \in 0..MaxTx, rx \in 0..MaxTx }
    /\ fnIn[2] <= fnIn[1]
    /\ fnOut = <<>>

LossStep ==
    /\ pc = "fn"
    /\ fnOut = <<>>
    /\ fnOut' = <<LossPct(fnIn[1], fnIn[2])>>
    /\ UNCHANGED <<fnIn, progVars>>

SpecLoss == InitLoss /\ [][LossStep]_vars

(* ------------------------------ claims -------------------------------- *)
\* node n's address list holds the string ip
Holds(n, ip) == \E k \in 1..Len(nodeIpv4Strings[n + 1]) : nodeIpv4Strings[n + 1][k] = ip

\* the flow-pair list is final: padding and truncation are over and the
\* run has not faulted
Reconciled == pc \in {"flows", "metrics", "row"} \/ (pc = "done" /\ exitCode = 0)

\* the "Links and IPs" loop has run to its end
Allocated == (pc = "links" /\ li = Len(links)) \/ pc \notin {"load", "links"}

\* C1: with nNodes >= 2, once padding and truncation are over the flow-pair
\* list has exactly nFlows (the capped request) entries, and the pairs taken
\* from the routes come first, in extraction order: when more than nFlows
\* were extracted, the list is the first nFlows of them.
C1_ExactCountEarliestKept ==
    (Reconciled /\ nNodes >= 2) =>
        /\ Len(flowPairs) = nFlows
        /\ \A i \in 1..Min(Len(extracted), nFlows) : flowPairs[i] = extracted[i]

\* C1 witness: two different pairs were extracted, one was requested, and
\* the truncation has run.
C1_Witness ==
    /\ pc = "flows" /\ nNodes >= 2
    /\ nFlows = 1 /\ Len(extracted) = 2 /\ extracted[1] /= extracted[2]
    /\ flowPairs = <<extracted[1]>>

\* C2: once the topology is loaded the run ends with exit code 0, whatever
\* the node count, the links and the requested flow count.
C2_TerminatesWithZero == (pc = "links") ~> (pc = "done" /\ exitCode = 0)

\* C3 (as amended): for a topology of at most 256*256 - 1 links, the link
\* installed i-th (i = 1, 2, ...) has base 10.(i div 256).(i mod 256).0, the
\* counter has been incremented once per link, both octets are in 0..255,
\* and the link number is recovered from the base as 256 * octet2 + octet3,
\* so no two links share a subnet.
C3_SubnetPerLink ==
    (fnOut /= <<>> /\ fnIn[1] <= U8 * U8 - 1) =>
        /\ fnIn[2] = fnIn[1] + SubnetStart
        /\ fnOut[1] = 10 /\ fnOut[4] = 0
        /\ fnOut[2] \in 0..255 /\ fnOut[3] \in 0..255
        /\ 256 * fnOut[2] + fnOut[3] = fnIn[1]

\* C3 witness: the last link the amended claim covers, 10.255.255.0
C3_Witness == fnIn[1] = U8 * U8 - 1 /\ fnOut = <<10, 255, 255, 0>>

\* C3 as stated: the same for a topology of at most 256*256 links
C3_Original ==
    (fnOut /= <<>> /\ fnIn[1] <= U8 * U8) =>
        /\ fnIn[2] = fnIn[1] + SubnetStart
        /\ fnOut[1] = 10 /\ fnOut[4] = 0
        /\ fnOut[2] \in 0..255 /\ fnOut[3] \in 0..255
        /\ 256 * fnOut[2] + fnOut[3] = fnIn[1]

\* C4: lossPct is the exact ratio (txPackets - rxPackets) / txPackets * 100
\* when txPackets > 0, and 0 when txPackets = 0.
C4_LossIsExactRatio ==
    fnOut /= <<>> =>
        IF fnIn[1] > 0 THEN fnOut[1] * fnIn[1] = (fnIn[1] - fnIn[2]) * 100
        ELSE fnOut[1] = 0

\* C5: when reading or parsing the route source failed anywhere, no static
\* route has been installed and no pair of the flow list comes from a route
\* entry (the route-derived pairs are the first Len(extracted) of the list).
C5_FailedRoutesLeaveNothing ==
    (parseFailed /\ (pc = "pad" \/ Reconciled)) =>
        /\ nStaticRoutes = 0
        /\ Min(Len(extracted), Len(flowPairs)) = 0

\* C6: in every CSV row, an address some node's list records resolves to
\* that node, and an address no list records resolves to -1.
C6_LookupRoundTrip ==
    rec /= <<>> =>
        /\ \A n \in 0..(nNodes - 1) :
             /\ Holds(n, rec[1].srcIp) => rec[1].srcIdx = n
             /\ Holds(n, rec[1].dstIp) => rec[1].dstIdx = n
        /\ (~\E n \in 0..(nNodes - 1) : Holds(n, rec[1].srcIp)) => rec[1].srcIdx = -1
        /\ (~\E n \in 0..(nNodes - 1) : Holds(n, rec[1].dstIp)) => rec[1].dstIdx = -1

\* C6 witness: a row whose source is the second address of node 1 and
\* whose destination no node records.
C6_Witness ==
    /\ rec /= <<>>
    /\ nNodes >= 2 /\ Len(nodeIpv4Strings[2]) = 2
    /\ rec[1].srcIp = nodeIpv4Strings[2][2] /\ rec[1].srcIdx = 1
    /\ rec[1].dstIp = <<127, 0, 0, 1>> /\ rec[1].dstIdx = -1

\* C7: every pair of the flow list has src /= dst and both in [0, nNodes).
C7_PairsDistinctInRange ==
    \A i \in 1..Len(flowPairs) :
        /\ flowPairs[i][1] /= flowPairs[i][2]
        /\ flowPairs[i][1] \in 0..(nNodes - 1)
        /\ flowPairs[i][2] \in 0..(nNodes - 1)

\* C8: a route entry whose src, dst and next_hop are nodes, dst and
\* next_hop with an address, gets the host route (dst's first address via
\* next_hop's first address) at src; any other entry is skipped: no route,
\* no error.
C8_RouteOrSilentSkip ==
    (pc \in {"install", "fault"} /\ entry /= <<>>) =>
        LET src == entry[1]
            dst == entry[2]
            next == entry[3]
            resolvable ==
                /\ src < nNodes /\ dst < nNodes /\ next < nNodes
                /\ nodeIpv4Strings[dst + 1] /= <<>>
                /\ nodeIpv4Strings[next + 1] /= <<>>
        IN /\ pc /= "fault"
           /\ resolvable =>
                route = <<src, Ipv4Address(nodeIpv4Strings[dst + 1][1]),
                          Ipv4Address(nodeIpv4Strings[next + 1][1])>>
           /\ ~resolvable => route = <<>>

\* C9: the sessions of flow index f use port basePort + f (so distinct
\* flows use distinct ports), for every flow index.
C9_PortIsBasePlusIndex == fnOut /= <<>> => fnOut[1] = basePort + fnIn[1]

\* C10 (as amended): after allocation each node's address list has one
\* entry per incident link endpoint; every installed session has a
\* destination (the node of its receiving session) with a non-empty list,
\* and a flow whose destination has an empty list installs nothing.
C10_ListsAndSinks ==
    /\ Allocated =>
         \A n \in 0..(nNodes - 1) :
            Len(nodeIpv4Strings[n + 1]) =
                Cardinality({ x \in (1..Len(links)) \X {1, 2} : links[x[1]][x[2]] = n })
    /\ \A k \in 1..Len(sessions) : nodeIpv4Strings[sessions[k].dst + 1] /= <<>>
    /\ pc \in {"flows", "metrics", "row", "done"} =>
         \A i \in 1..f :
            (/\ flowPairs[i][2] < nNodes
             /\ nodeIpv4Strings[flowPairs[i][2] + 1] = <<>>)
            => ~\E k \in 1..Len(sessions) : sessions[k].flow = i - 1

\* C10 witness: of two flows, one was skipped for its destination's empty
\* list and one got its sessions.
C10_Witness ==
    /\ pc = "flows" /\ f = 2 /\ Len(sessions) = 1
    /\ \E i \in 1..2 : nodeIpv4Strings[flowPairs[i][2] + 1] = <<>>

\* C10 as stated: in addition, no sending session is on a node whose list
\* is empty.
C10_Original ==
    /\ C10_ListsAndSinks
    /\ \A k \in 1..Len(sessions) : nodeIpv4Strings[sessions[k].src + 1] /= <<>>

=============================================================================
